---- MODULE Spec2Model ----
(***************************************************************************)
(* Model of src/main.py: slope and deflection of a simply supported beam   *)
(* under uniform load, by trapezoidal integration of the curvature.        *)
(*                                                                         *)
(* Numbers.  A value is a pair <<n, d>>: the rational n/d in lowest terms  *)
(* with d > 0, or one of the three non-finite values of floating point,    *)
(* <<1, 0>> (+inf), <<-1, 0>> (-inf) and <<0, 0>> (NaN).  Finite           *)
(* arithmetic is exact (no rounding of sums and products); the non-finite  *)
(* values follow IEEE 754 as numpy applies it (x/0 gives inf or NaN and a  *)
(* warning), while a division of two Python floats raises                  *)
(* ZeroDivisionError on a zero divisor.                                    *)
(*                                                                         *)
(* Units.  Forces are counted in kN (10**3 N), so that the shipped         *)
(* modulus 30 * 10**9 Pa = 30 * 10**6 kPa fits the integers of the model   *)
(* checker; load and modulus only occur in the program as load/modulus     *)
(* and as the moment, which is then in kNm.                                *)
(***************************************************************************)
EXTENDS Integers, Sequences, FiniteSets, TLC

\* ------------------------------------------------------------------------
\* Bounds of the explored inputs
MaxLength == 4
MaxStep == 3
MaxLoad == 2
MaxSeed == 1

\* ------------------------------------------------------------------------
\* Arithmetic

IAbs(n) == IF n < 0 THEN -n ELSE n

Sign(n) == IF n > 0 THEN 1 ELSE IF n < 0 THEN -1 ELSE 0

RECURSIVE GCD(_, _)
GCD(a, b) == IF b = 0 THEN a ELSE GCD(b, a % b)

NaN == <<0, 0>>
PosInf == <<1, 0>>
NegInf == <<-1, 0>>
Zero == <<0, 1>>

\* n/d in lowest terms; a zero denominator gives the non-finite value
Rat(n, d) ==
    IF d = 0 THEN <<Sign(n), 0>>
    ELSE IF n = 0 THEN Zero
    ELSE LET g == GCD(IAbs(n), IAbs(d))
         IN  <<(Sign(d) * n) \div g, IAbs(d) \div g>>

Int2(n) == <<n, 1>>

IsFinite(a) == a[2] # 0
IsNaN(a) == a = NaN
IsZero(a) == a[2] # 0 /\ a[1] = 0

Neg(a) == <<-a[1], a[2]>>

Abs(a) == <<IAbs(a[1]), a[2]>>

Mul(a, b) ==
    IF IsNaN(a) \/ IsNaN(b) THEN NaN
    ELSE IF ~IsFinite(a) \/ ~IsFinite(b)
         THEN <<Sign(a[1]) * Sign(b[1]), 0>>      \* inf * 0 = NaN
    ELSE IF a[1] = 0 \/ b[1] = 0 THEN Zero
    ELSE LET g1 == GCD(IAbs(a[1]), b[2])
             g2 == GCD(IAbs(b[1]), a[2])
         IN  <<(a[1] \div g1) * (b[1] \div g2), (a[2] \div g2) * (b[2] \div g1)>>

Add(a, b) ==
    IF IsNaN(a) \/ IsNaN(b) THEN NaN
    ELSE IF ~IsFinite(a) /\ ~IsFinite(b)
         THEN (IF a = b THEN a ELSE NaN)          \* inf + (-inf) = NaN
    ELSE IF ~IsFinite(a) THEN a
    ELSE IF ~IsFinite(b) THEN b
    ELSE LET g == GCD(a[2], b[2])
         IN  Rat(a[1] * (b[2] \div g) + b[1] * (a[2] \div g), a[2] * (b[2] \div g))

Sub(a, b) == Add(a, Neg(b))

\* IEEE 754 division, as numpy performs it: a zero divisor gives inf or NaN
NpDiv(a, b) ==
    IF IsNaN(a) \/ IsNaN(b) THEN NaN
    ELSE IF ~IsFinite(b) THEN (IF IsFinite(a) THEN Zero ELSE NaN)
    ELSE IF IsZero(b) THEN <<Sign(a[1]), 0>>
    ELSE IF ~IsFinite(a) THEN <<Sign(a[1]) * Sign(b[1]), 0>>
    ELSE Mul(a, <<Sign(b[1]) * b[2], IAbs(b[1])>>)

\* a < b and a <= b on finite values
Less(a, b) ==
    LET g == GCD(a[2], b[2])
    IN  a[1] * (b[2] \div g) < b[1] * (a[2] \div g)

LessEq(a, b) == a = b \/ Less(a, b)

\* ceil(a) of a finite value
Ceil(a) == -((-a[1]) \div a[2])

\* ------------------------------------------------------------------------
\* The shipped constants of main (forces in kN)

load_shipped == Int2(10)
length_shipped == Int2(5)
dx_shipped == Rat(1, 10)
inertia_shipped == Mul(Mul(Rat(1, 12), Rat(3, 10)), Mul(Rat(1, 2), Mul(Rat(1, 2), Rat(1, 2))))
modulus_shipped == Int2(30 * 10^6)

\* ------------------------------------------------------------------------
\* numpy.arange(0, stop, step) followed by numpy.append(x_axis, length)

\* numpy sizes the result as ceil((stop - start)/step), the quotient evaluated
\* in binary64.  For integer operands the quotient is exact.  Of the decimal
\* operands explored here, 5/0.1 evaluates to exactly 50.0, while 2.1/0.3
\* evaluates to 7.000000000000001, one unit in the last place above 7, so
\* that its ceiling is 8.
Binary64CeilExcess(stop, step) ==
    IF <<stop, step>> \in {<<Rat(21, 10), Rat(3, 10)>>} THEN 1 ELSE 0

ArangeLen(stop, step) == Ceil(NpDiv(stop, step)) + Binary64CeilExcess(stop, step)

np_arange(stop, step) ==
    [i \in 1..ArangeLen(stop, step) |-> Mul(Int2(i - 1), step)]

space_mesh(length, dx) == Append(np_arange(length, dx), length)

\* ------------------------------------------------------------------------
\* The functions of main.py

Half(a) == Mul(a, Rat(1, 2))

\* mutants of moment: one of the two halvings left out
moment_first_term_not_halved(x_pos, load, length) ==
    Sub(Mul(x_pos, Mul(load, length)), Mul(Mul(load, x_pos), Half(x_pos)))

moment_second_term_not_halved(x_pos, load, length) ==
    Sub(Half(Mul(x_pos, Mul(load, length))), Mul(Mul(load, x_pos), x_pos))

moment(x_pos, load, length) ==
    Sub(Half(Mul(x_pos, Mul(load, length))), Mul(Mul(load, x_pos), Half(x_pos)))

get_bending_moments(x_axis, load, length) ==
    [i \in 1..Len(x_axis) |-> moment(x_axis[i], load, length)]

get_curvatures(bending_moment_list, modulus, inertia) ==
    [i \in 1..Len(bending_moment_list) |->
        NpDiv(bending_moment_list[i], Mul(modulus, inertia))]

\* mutant of trapezoid_step: the rectangle rule on the right-hand sample
trapezoid_step_right_sample(dx, values, i, running) ==
    Add(running, Mul(dx, values[i]))

\* one pass of the loop body for index i (1-based), given the running value
trapezoid_step(dx, values, i, running) ==
    Add(running, Mul(Half(dx), Add(values[i], values[i - 1])))

RECURSIVE slopes_loop(_, _, _, _, _, _, _)
slopes_loop(dx, x_axis, curvature_list, slope_init, i, slope, slope_list) ==
    IF i > Len(x_axis) THEN slope_list
    ELSE LET s == IF i = 1 THEN slope_init
                  ELSE trapezoid_step(dx, curvature_list, i, slope)
         IN  slopes_loop(dx, x_axis, curvature_list, slope_init, i + 1, s,
                         Append(slope_list, s))

\* mutant of get_slopes: the seed is not used
get_slopes_ignoring_seed(dx, x_axis, curvature_list, slope_init) ==
    slopes_loop(dx, x_axis, curvature_list, Zero, 1, Zero, <<>>)

get_slopes(dx, x_axis, curvature_list, slope_init) ==
    slopes_loop(dx, x_axis, curvature_list, slope_init, 1, Zero, <<>>)

RECURSIVE deflections_loop(_, _, _, _, _, _)
deflections_loop(dx, x_axis, slope_list, i, deflection, deflection_list) ==
    IF i > Len(x_axis) THEN deflection_list
    ELSE LET d == IF i = 1 THEN Zero
                  ELSE trapezoid_step(dx, slope_list, i, deflection)
         IN  deflections_loop(dx, x_axis, slope_list, i + 1, d,
                              Append(deflection_list, d))

get_deflections(dx, x_axis, slope_list) ==
    deflections_loop(dx, x_axis, slope_list, 1, Zero, <<>>)

\* int(len(list) / 2), as a 1-based index
mid_index(list) == (Len(list) \div 2) + 1

\* mutant of corrected_seed: the raw mid-span slope is added
corrected_seed_sign_slip(slope_init_0, slope_midspan) ==
    Add(slope_init_0, slope_midspan)

\* slope_init_0 + (0 - slope_midspan)
corrected_seed(slope_init_0, slope_midspan) ==
    Add(slope_init_0, Sub(Zero, slope_midspan))

\* the numerator and the divisor of line 99
theor_numerator(load, length) ==
    Mul(Neg(Rat(5, 384)), Mul(load, Mul(Mul(length, length), Mul(length, length))))

relative_error(deflection_mid_theor, deflection_mid) ==
    NpDiv(Abs(Sub(deflection_mid_theor, deflection_mid)), deflection_mid_theor)

\* ------------------------------------------------------------------------
\* main as a state machine

VARIABLES pc, load, length, dx, inertia, modulus, slope_init_0,
          x_axis, bending_moment_list, curvature_list, slope_list,
          slope_midspan, slope_init_1, deflection_list,
          deflection_mid, deflection_mid_theor, error

params == <<load, length, dx, inertia, modulus, slope_init_0>>
vars == <<pc, load, length, dx, inertia, modulus, slope_init_0,
          x_axis, bending_moment_list, curvature_list, slope_list,
          slope_midspan, slope_init_1, deflection_list,
          deflection_mid, deflection_mid_theor, error>>

None == <<>>

\* spans and steps: whole numbers of metres, the shipped 5 m by 0.1 m and
\* 2.1 m by 0.3 m
Meshes ==
    ({Int2(l) : l \in 0..MaxLength} \X {Int2(s) : s \in 1..MaxStep})
    \cup {<<length_shipped, dx_shipped>>, <<Rat(21, 10), Rat(3, 10)>>}

Loads == {Int2(w) : w \in 0..MaxLoad} \cup {load_shipped}
Moduli == {Zero, Int2(1), modulus_shipped}
Inertias == {Int2(1), inertia_shipped}
Seeds == {Int2(s) : s \in (-MaxSeed)..MaxSeed}

Init ==
    /\ pc = "mesh"
    /\ \E m \in Meshes : length = m[1] /\ dx = m[2]
    /\ load \in Loads
    /\ modulus \in Moduli
    /\ inertia \in Inertias
    /\ slope_init_0 \in Seeds
    \* the shipped modulus goes with the shipped section, not with the 2.1 m
    \* span, and on the 0.1 m mesh with the shipped load only (numerators
    \* and denominators stay within 32 bits)
    /\ modulus = modulus_shipped =>
           /\ inertia = inertia_shipped
           /\ length # Rat(21, 10)
           /\ dx = dx_shipped => load = load_shipped
    /\ x_axis = None
    /\ bending_moment_list = None
    /\ curvature_list = None
    /\ slope_list = None
    /\ slope_midspan = None
    /\ slope_init_1 = None
    /\ deflection_list = None
    /\ deflection_mid = None
    /\ deflection_mid_theor = None
    /\ error = None

\* lines 66-68
SpaceMesh ==
    /\ pc = "mesh"
    /\ x_axis' = space_mesh(length, dx)
    /\ pc' = "moments"
    /\ UNCHANGED <<params, bending_moment_list, curvature_list, slope_list,
                   slope_midspan, slope_init_1, deflection_list,
                   deflection_mid, deflection_mid_theor, error>>

\* line 71
BendingMoments ==
    /\ pc = "moments"
    /\ bending_moment_list' = get_bending_moments(x_axis, load, length)
    /\ pc' = "curvatures"
    /\ UNCHANGED <<params, x_axis, curvature_list, slope_list,
                   slope_midspan, slope_init_1, deflection_list,
                   deflection_mid, deflection_mid_theor, error>>

\* line 74
Curvatures ==
    /\ pc = "curvatures"
    /\ curvature_list' = get_curvatures(bending_moment_list, modulus, inertia)
    /\ pc' = "slopes0"
    /\ UNCHANGED <<params, x_axis, bending_moment_list, slope_list,
                   slope_midspan, slope_init_1, deflection_list,
                   deflection_mid, deflection_mid_theor, error>>

\* lines 77-79
TrialSlopes ==
    /\ pc = "slopes0"
    /\ LET first == get_slopes(dx, x_axis, curvature_list, slope_init_0)
       IN  /\ slope_list' = first
           /\ slope_midspan' = first[mid_index(first)]
    /\ pc' = "slopes1"
    /\ UNCHANGED <<params, x_axis, bending_moment_list, curvature_list,
                   slope_init_1, deflection_list,
                   deflection_mid, deflection_mid_theor, error>>

\* lines 82-84
CorrectedSlopes ==
    /\ pc = "slopes1"
    /\ slope_init_1' = corrected_seed(slope_init_0, slope_midspan)
    /\ slope_list' = get_slopes(dx, x_axis, curvature_list, slope_init_1')
    /\ pc' = "deflections"
    /\ UNCHANGED <<params, x_axis, bending_moment_list, curvature_list,
                   slope_midspan, deflection_list,
                   deflection_mid, deflection_mid_theor, error>>

\* line 87 (the plots of lines 90-93 change no state)
Deflections ==
    /\ pc = "deflections"
    /\ deflection_list' = get_deflections(dx, x_axis, slope_list)
    /\ pc' = "midspan"
    /\ UNCHANGED <<params, x_axis, bending_moment_list, curvature_list,
                   slope_list, slope_midspan, slope_init_1,
                   deflection_mid, deflection_mid_theor, error>>

\* lines 96-97
MidSpan ==
    /\ pc = "midspan"
    /\ deflection_mid' = deflection_list[mid_index(deflection_list)]
    /\ pc' = "theoretical"
    /\ UNCHANGED <<params, x_axis, bending_moment_list, curvature_list,
                   slope_list, slope_midspan, slope_init_1, deflection_list,
                   deflection_mid_theor, error>>

\* mutant of Theoretical: the division behaves as numpy's, giving inf or NaN
TheoreticalAsNumpy ==
    /\ pc = "theoretical"
    /\ deflection_mid_theor' =
           NpDiv(theor_numerator(load, length), Mul(modulus, inertia))
    /\ pc' = "error"
    /\ UNCHANGED <<params, x_axis, bending_moment_list, curvature_list,
                   slope_list, slope_midspan, slope_init_1, deflection_list,
                   deflection_mid, error>>

\* lines 99-100: a division of Python floats
Theoretical ==
    /\ pc = "theoretical"
    /\ ~IsZero(Mul(modulus, inertia))
    /\ deflection_mid_theor' =
           NpDiv(theor_numerator(load, length), Mul(modulus, inertia))
    /\ pc' = "error"
    /\ UNCHANGED <<params, x_axis, bending_moment_list, curvature_list,
                   slope_list, slope_midspan, slope_init_1, deflection_list,
                   deflection_mid, error>>

\* line 99 with a zero divisor: float division by zero
TheoreticalRaises ==
    /\ pc = "theoretical"
    /\ IsZero(Mul(modulus, inertia))
    /\ pc' = "ZeroDivisionError"
    /\ UNCHANGED <<params, x_axis, bending_moment_list, curvature_list,
                   slope_list, slope_midspan, slope_init_1, deflection_list,
                   deflection_mid, deflection_mid_theor, error>>

\* lines 102-103: numpy.float64 divided by a Python float
Error ==
    /\ pc = "error"
    /\ error' = relative_error(deflection_mid_theor, deflection_mid)
    /\ pc' = "done"
    /\ UNCHANGED <<params, x_axis, bending_moment_list, curvature_list,
                   slope_list, slope_midspan, slope_init_1, deflection_list,
                   deflection_mid, deflection_mid_theor>>

Next ==
    \/ SpaceMesh
    \/ BendingMoments
    \/ Curvatures
    \/ TrialSlopes
    \/ CorrectedSlopes
    \/ Deflections
    \/ MidSpan
    \/ Theoretical
    \/ TheoreticalRaises
    \/ Error

Spec == Init /\ [][Next]_vars

\* ------------------------------------------------------------------------
\* Vocabulary of the properties

Rigidity == Mul(modulus, inertia)
Rigid == ~IsZero(Rigidity)

Positive(a) == IsFinite(a) /\ a[1] > 0

MeshBuilt == pc # "mesh"
MomentsDone == pc \notin {"mesh", "moments"}
CurvaturesDone == pc \notin {"mesh", "moments", "curvatures"}
Corrected == pc \in {"deflections", "midspan", "theoretical", "error",
                     "done", "ZeroDivisionError"}
Integrated == pc \in {"midspan", "theoretical", "error", "done",
                      "ZeroDivisionError"}

\* length is an even multiple of the step size
EvenMultiple ==
    LET q == NpDiv(length, dx) IN q[2] = 1 /\ q[1] % 2 = 0

\* the mesh has the size exact arithmetic gives it
ExactMesh == Binary64CeilExcess(length, dx) = 0

ShippedCase ==
    /\ load = load_shipped
    /\ length = length_shipped
    /\ dx = dx_shipped
    /\ inertia = inertia_shipped
    /\ modulus = modulus_shipped
    /\ slope_init_0 = Zero

\* ------------------------------------------------------------------------
\* C1: after the correction pass the slope is zero at the sample main reads,
\* index int(n/2), and for a length that is an even multiple of the step
\* (non-zero rigidity, exact arithmetic) that sample lies at x = length/2.
SlopeZeroAtMidSpan ==
    (Corrected /\ Rigid /\ EvenMultiple) =>
        /\ slope_list[mid_index(slope_list)] = Zero
        /\ x_axis[mid_index(x_axis)] = Half(length)

SlopeZeroAtMidSpanWitness ==
    /\ Corrected /\ Rigid /\ EvenMultiple
    /\ length = length_shipped /\ dx = dx_shipped /\ load = load_shipped
    /\ slope_midspan # Zero
    /\ slope_list[1] # Zero
    /\ slope_list[mid_index(slope_list)] = Zero

\* C2 (as claimed): for positive load, rigidity, length and step the
\* deflection sequence is zero at its first and at its last element (in
\* exact arithmetic).
DeflectionZeroAtSupports ==
    (Integrated /\ ExactMesh /\ Positive(load) /\ Positive(Rigidity)
                /\ Positive(length)) =>
        /\ deflection_list[1] = Zero
        /\ deflection_list[Len(deflection_list)] = Zero

\* C3: with the shipped constants the computed mid-span deflection is within
\* 1% of the closed-form value, and both are negative.
ShippedDeflectionWithinOnePercent ==
    (pc = "done" /\ ShippedCase) =>
        /\ Less(Mul(Int2(100), Abs(Sub(deflection_mid_theor, deflection_mid))),
                Abs(deflection_mid_theor))
        /\ Less(deflection_mid, Zero)
        /\ Less(deflection_mid_theor, Zero)

ShippedDeflectionWitness ==
    /\ pc = "done" /\ ShippedCase
    /\ Len(deflection_list) = 51
    /\ deflection_mid_theor = Rat(-1, 1152)
    /\ deflection_mid # deflection_mid_theor

\* C4: the bending moment is zero at the first and at the last mesh sample,
\* for every load and length.
MomentZeroAtSupports ==
    MomentsDone =>
        /\ bending_moment_list[1] = Zero
        /\ bending_moment_list[Len(bending_moment_list)] = Zero

MomentZeroAtSupportsWitness ==
    /\ MomentsDone /\ Positive(load) /\ Positive(length)
    /\ \E i \in 1..Len(bending_moment_list) : Positive(bending_moment_list[i])
    /\ bending_moment_list[Len(bending_moment_list)] = Zero

\* C5: for positive load and length no mesh sample has a larger moment than
\* the one get_bending_moments gives at x = length/2, which is load*length^2/8.
MomentMaximalAtMidSpan ==
    (MomentsDone /\ Positive(load) /\ Positive(length)) =>
        LET mid == get_bending_moments(<<Half(length)>>, load, length)[1]
        IN  /\ \A i \in 1..Len(bending_moment_list) :
                   LessEq(bending_moment_list[i], mid)
            /\ mid = Mul(Mul(load, Mul(length, length)), Rat(1, 8))

MomentMaximalWitness ==
    /\ MomentsDone /\ Positive(load) /\ Positive(length)
    /\ \E i, j \in 1..Len(bending_moment_list) :
           /\ x_axis[i] = Half(length)
           /\ bending_moment_list[i] = Mul(Mul(load, Mul(length, length)), Rat(1, 8))
           /\ Positive(bending_moment_list[j])
           /\ Less(bending_moment_list[j], bending_moment_list[i])

\* C6 (as claimed): for positive length and step the mesh starts at 0, ends
\* at length, is strictly ascending, steps by dx except for the last
\* interval, which is greater than 0 and at most dx.
MeshAscendingToLength ==
    (MeshBuilt /\ Positive(length)) =>
        LET n == Len(x_axis)
        IN  /\ x_axis[1] = Zero
            /\ x_axis[n] = length
            /\ \A i \in 1..(n - 1) : Less(x_axis[i], x_axis[i + 1])
            /\ \A i \in 1..(n - 2) : Sub(x_axis[i + 1], x_axis[i]) = dx
            /\ Less(Zero, Sub(x_axis[n], x_axis[n - 1]))
            /\ LessEq(Sub(x_axis[n], x_axis[n - 1]), dx)

\* C7 (as claimed): every increment of the slope and of the deflection
\* sequence is the trapezoid over the local mesh interval, and element 0 is
\* the seed (checked on the meshes of exact size, with finite curvatures).
TrapezoidUsesLocalStep ==
    (Integrated /\ ExactMesh /\ Rigid) =>
        /\ slope_list[1] = slope_init_1
        /\ deflection_list[1] = Zero
        /\ \A i \in 2..Len(x_axis) :
               LET h == Half(Sub(x_axis[i], x_axis[i - 1]))
               IN  /\ Sub(slope_list[i], slope_list[i - 1]) =
                          Mul(h, Add(curvature_list[i], curvature_list[i - 1]))
                   /\ Sub(deflection_list[i], deflection_list[i - 1]) =
                          Mul(h, Add(slope_list[i], slope_list[i - 1]))

\* C8: the second pass returns, at every index, the first pass's value minus
\* the first pass's value at index int(n/2); the result is the one the seed 0
\* gives, whatever the trial seed.
ShootingIndependentOfSeed ==
    [][(pc = "slopes1" /\ Rigid) =>
         LET ref == get_slopes(dx, x_axis, curvature_list, Zero)
         IN  \A i \in 1..Len(x_axis) :
                 /\ slope_list'[i] =
                        Sub(slope_list[i], slope_list[mid_index(slope_list)])
                 /\ slope_list'[i] = Sub(ref[i], ref[mid_index(ref)])]_vars

ShootingWitness ==
    /\ Corrected /\ Rigid
    /\ slope_init_0 # Zero
    /\ slope_init_1 # slope_init_0
    /\ slope_init_1 # Zero
    /\ Len(slope_list) > 2
    /\ slope_list[mid_index(slope_list)] = Zero

\* C9 (as claimed): with zero length or zero modulus no step raises.
NoExceptionOnZeroInputs ==
    (IsZero(length) \/ IsZero(modulus)) => pc # "ZeroDivisionError"

\* C9 (amended): with zero modulus the curvatures, slopes and deflections are
\* computed as inf/NaN without an exception, but the closed-form deflection
\* (a division of Python floats) raises ZeroDivisionError, so that neither the
\* error is computed nor the end of main reached; with zero length and a
\* non-zero modulus nothing raises, main runs to its end and the error is NaN.
ZeroInputsOutcome ==
    /\ pc = "ZeroDivisionError" =>
           /\ IsZero(Rigidity)
           /\ deflection_mid # None
           /\ deflection_mid_theor = None
           /\ error = None
    /\ (IsZero(modulus) /\ CurvaturesDone) =>
           \A i \in 1..Len(curvature_list) : ~IsFinite(curvature_list[i])
    /\ (IsZero(modulus) /\ Integrated) =>
           /\ \A i \in 2..Len(slope_list) : ~IsFinite(slope_list[i])
           /\ \A i \in 2..Len(deflection_list) : ~IsFinite(deflection_list[i])
    /\ IsZero(modulus) => pc \notin {"error", "done"}
    /\ (IsZero(length) /\ ~IsZero(modulus)) =>
           /\ pc = "done" \/ ENABLED Next
           /\ pc = "done" => error = NaN

ZeroModulusWitness ==
    /\ pc = "ZeroDivisionError"
    /\ IsZero(modulus) /\ Positive(load) /\ Positive(length)
    /\ \E i \in 1..Len(curvature_list) : curvature_list[i] = PosInf
    /\ deflection_mid = NaN

\* C10 (as claimed): the error is |theoretical - computed| / |theoretical|,
\* hence not negative, whenever the theoretical deflection is not zero.
ErrorIsRelativeError ==
    (pc = "done" /\ ~IsZero(deflection_mid_theor)) =>
        /\ error = NpDiv(Abs(Sub(deflection_mid_theor, deflection_mid)),
                         Abs(deflection_mid_theor))
        /\ LessEq(Zero, error)

====
